---- MODULE Spec2Model ----
(***************************************************************************)
(* Model of lib/nel.js: a Session that serialises tasks against a spawned  *)
(* worker process (this._server), with kill and restart, and the           *)
(* operations complete and inspect composed of primitive tasks.            *)
(*                                                                         *)
(* Javascript runs every handler to completion, so each public call and    *)
(* each event (a "message" or "exit" event of a worker handle) is one      *)
(* action.  A callback supplied by the caller may do nothing or call       *)
(* execute, kill or restart; a handler therefore has a set of outcomes,    *)
(* one per choice of what the callbacks it invokes do.  The operators      *)
(* that model the code map a program state (a record) to the set of the    *)
(* states the code can leave behind.                                       *)
(***************************************************************************)
EXTENDS Integers, Sequences, FiniteSets

\* ------------------------------------------------------------------ bounds
MaxCalls == 3      \* public calls (execute, complete, inspect, kill, restart)
MaxNested == 1     \* callbacks that call back into the session
MaxCodeLen == 3    \* characters of a code given to complete or inspect

Null == 0
Handles == 1..(MaxCalls + 1)
ExecCode == <<"1">>                       \* the code of every execute call
GlobalCode == <<"g", "l", "o", "b", "a", "l">>
\* The codes given to complete and inspect, with the cursor at their end:
\* an identifier, a property access, and an access on an unsupported scope.
Codes == {<<"a">>, <<"a", ".", "b">>, <<")", ".", "b">>}

VARIABLES
    _task,      \* this._task: id of the task being run, Null if none
    _tasks,     \* this._tasks: queue of task ids
    _killed,    \* this._killed
    _server,    \* this._server: the current worker handle
    spawned,    \* number of worker handles spawned so far
    status,     \* per handle: "unborn", "running", "signalled", "exited"
    inbox,      \* per handle: requests received by the worker, not replied to
    msgL,       \* per handle: is Session.prototype._onMessage listening
    exitL,      \* per handle: the "exit" listeners (ids of the kill calls)
    calls,      \* the calls of execute, complete and inspect so far, by id
    tbl,        \* the tasks created so far, by id
    kills,      \* the calls of kill and restart so far, by id
    nested,     \* number of callbacks that have called back into the session
    step,       \* history: number of handlers run so far
    log         \* history: the observable events, in order

vars == <<_task, _tasks, _killed, _server, spawned, status, inbox, msgL,
          exitL, calls, tbl, kills, nested, step, log>>

NoMsg == [error |-> FALSE, h |-> 0, req |-> 0]
\* The value of a variable that has not been assigned.
Undefined == [isUndefined |-> TRUE]

\* ------------------------------------------------- the expression parser
\* Strings are sequences of one-character strings.
LowerCase == {"a", "b", "c", "d", "e", "f", "g", "h", "i", "j", "k", "l", "m",
              "n", "o", "p", "q", "r", "s", "t", "u", "v", "w", "x", "y", "z"}
UpperCase == {"A", "B", "C", "D", "E", "F", "G", "H", "I", "J", "K", "L", "M",
              "N", "O", "P", "Q", "R", "S", "T", "U", "V", "W", "X", "Y", "Z"}
Digits == {"0", "1", "2", "3", "4", "5", "6", "7", "8", "9"}
IdStart == LowerCase \cup UpperCase \cup {"_", "$"}
IdChar == IdStart \cup Digits
LineTerminators == {"\n", "\r"}

\* s[i] of Javascript for a 0-based i: undefined outside the string.
CharAt(s, i) == IF i >= 0 /\ i < Len(s) THEN s[i + 1] ELSE "undefined"

\* Slice that takes the string to its end: code.slice(from).
SliceToEnd(s, from, to) ==
    LET f == IF from > Len(s) THEN Len(s) ELSE from
    IN  IF f < Len(s) THEN SubSeq(s, f + 1, Len(s)) ELSE <<>>

\* code.slice(from, to) for 0 <= from and 0 <= to.
Slice(s, from, to) ==
    LET f == IF from > Len(s) THEN Len(s) ELSE from
        t == IF to > Len(s) THEN Len(s) ELSE to
    IN  IF f < t THEN SubSeq(s, f + 1, t) ELSE <<>>

\* whitespaceRE = /\s/ applied to one character.
whitespaceRE(c) == c \in {" ", "\t", "\n", "\r", "\f"}

\* All of s[from..to] (1-based, inclusive) are identifier characters.
AllIdChar(s, from, to) == \A j \in from..to : s[j] \in IdChar

\* simpleIdentifierRE = /[_$a-zA-Z][_$a-zA-Z0-9]*$/ : the 1-based index of
\* the leftmost match, 0 standing for null.
simpleIdentifierRE(s) ==
    LET starts == {i \in 1..Len(s) : s[i] \in IdStart /\ AllIdChar(s, i + 1, Len(s))}
    IN  IF starts = {} THEN 0
        ELSE CHOOSE i \in starts : \A j \in starts : i <= j

\* One repetition of the group of complexIdentifierRE matches s[p..q-1].
ComplexGroup(s, p, q) ==
    \/ s[p] \in IdStart /\ AllIdChar(s, p + 1, q - 1)
    \/ /\ q - p >= 2
       /\ s[p] = "."
       /\ s[p + 1] \in IdStart
       /\ AllIdChar(s, p + 2, q - 1)
    \/ /\ q - p >= 4
       /\ s[p] = "["
       /\ s[p + 1] = "\""
       /\ \A j \in (p + 2)..(q - 3) : s[j] \notin LineTerminators
       /\ s[q - 2] = "\""
       /\ s[q - 1] = "]"
    \/ /\ q - p >= 4
       /\ s[p] = "["
       /\ s[p + 1] = "'"
       /\ \A j \in (p + 2)..(q - 3) : s[j] \notin LineTerminators
       /\ s[q - 2] = "'"
       /\ s[q - 1] = "]"

\* The groups of complexIdentifierRE can consume s from position p to its end.
RECURSIVE ComplexRest(_, _)
ComplexRest(s, p) ==
    \/ p = Len(s) + 1
    \/ \E q \in (p + 1)..(Len(s) + 1) : ComplexGroup(s, p, q) /\ ComplexRest(s, q)

\* complexIdentifierRE: the 1-based index of the leftmost match, 0 for null.
complexIdentifierRE(s) ==
    LET starts == {i \in 1..Len(s) :
                      /\ s[i] \in IdStart
                      /\ \E j \in (i + 1)..(Len(s) + 1) :
                             AllIdChar(s, i + 1, j - 1) /\ ComplexRest(s, j)}
    IN  IF starts = {} THEN 0
        ELSE CHOOSE i \in starts : \A j \in starts : i <= j

NullExpression == [isNull |-> TRUE]

Expression(matchedText, scope, leftOp, selector, rightOp) ==
    [matchedText |-> matchedText, scope |-> scope, leftOp |-> leftOp,
     selector |-> selector, rightOp |-> rightOp]

\* parseExpression without the test of leftOp in its last branch: it never
\* returns null.
parseExpressionNoLeftOpTest(code, cursorPos) ==
    LET e0 == Slice(code, 0, cursorPos)
    IN
    IF e0 = <<>> \/ whitespaceRE(CharAt(e0, Len(e0) - 1))
    THEN Expression(<<>>, <<>>, <<>>, <<>>, <<>>)
    ELSE
    LET re1 == simpleIdentifierRE(e0)
        selector == IF re1 = 0 THEN <<>> ELSE SubSeq(e0, re1, Len(e0))
        e1 == IF re1 = 0 THEN e0 ELSE Slice(e0, 0, re1 - 1)
        n1 == Len(e1)
        isDot == CharAt(e1, n1 - 1) = "."
        isDq == CharAt(e1, n1 - 2) = "[" /\ CharAt(e1, n1 - 1) = "\""
        isSq == CharAt(e1, n1 - 2) = "[" /\ CharAt(e1, n1 - 1) = "'"
        leftOp == IF isDot THEN <<".">>
                  ELSE IF isDq THEN <<"[", "\"">> ELSE <<"[", "'">>
        rightOp == IF isDot THEN <<>>
                   ELSE IF isDq THEN <<"\"", "]">> ELSE <<"'", "]">>
        e2 == IF isDot THEN Slice(e1, 0, n1 - 1) ELSE Slice(e1, 0, n1 - 2)
        re2 == complexIdentifierRE(e2)
    IN
    IF ~(isDot \/ isDq \/ isSq)
    THEN Expression(Slice(code, n1, cursorPos), <<>>, <<>>, selector, <<>>)
    ELSE IF re2 # 0
    THEN Expression(Slice(code, re2 - 1, cursorPos),
                    SubSeq(e2, re2, Len(e2)), leftOp, selector, rightOp)
    ELSE Expression(Slice(code, Len(e2), cursorPos), <<>>, leftOp, selector,
                    rightOp)

parseExpression(code, cursorPos) ==
    LET e0 == Slice(code, 0, cursorPos)
    IN
    IF e0 = <<>> \/ whitespaceRE(CharAt(e0, Len(e0) - 1))
    THEN Expression(<<>>, <<>>, <<>>, <<>>, <<>>)
    ELSE
    LET re1 == simpleIdentifierRE(e0)
        selector == IF re1 = 0 THEN <<>> ELSE SubSeq(e0, re1, Len(e0))
        e1 == IF re1 = 0 THEN e0 ELSE Slice(e0, 0, re1 - 1)
        n1 == Len(e1)
        isDot == CharAt(e1, n1 - 1) = "."
        isDq == CharAt(e1, n1 - 2) = "[" /\ CharAt(e1, n1 - 1) = "\""
        isSq == CharAt(e1, n1 - 2) = "[" /\ CharAt(e1, n1 - 1) = "'"
        leftOp == IF isDot THEN <<".">>
                  ELSE IF isDq THEN <<"[", "\"">> ELSE <<"[", "'">>
        rightOp == IF isDot THEN <<>>
                   ELSE IF isDq THEN <<"\"", "]">> ELSE <<"'", "]">>
        e2 == IF isDot THEN Slice(e1, 0, n1 - 1) ELSE Slice(e1, 0, n1 - 2)
        re2 == complexIdentifierRE(e2)
    IN
    IF ~(isDot \/ isDq \/ isSq)
    THEN Expression(Slice(code, n1, cursorPos), <<>>, <<>>, selector, <<>>)
    ELSE IF re2 # 0
    THEN Expression(Slice(code, re2 - 1, cursorPos),
                    SubSeq(e2, re2, Len(e2)), leftOp, selector, rightOp)
    ELSE IF leftOp = <<>>
    THEN Expression(Slice(code, Len(e2), cursorPos), <<>>, leftOp, selector,
                    rightOp)
    ELSE NullExpression

\* ------------------------------------------------ the completion result
javascriptKeywords ==
    <<
      <<"b", "r", "e", "a", "k">>,
      <<"c", "a", "s", "e">>,
      <<"c", "a", "t", "c", "h">>,
      <<"c", "o", "n", "t", "i", "n", "u", "e">>,
      <<"d", "e", "b", "u", "g", "g", "e", "r">>,
      <<"d", "e", "f", "a", "u", "l", "t">>,
      <<"d", "e", "l", "e", "t", "e">>,
      <<"d", "o">>,
      <<"e", "l", "s", "e">>,
      <<"f", "i", "n", "a", "l", "l", "y">>,
      <<"f", "o", "r">>,
      <<"f", "u", "n", "c", "t", "i", "o", "n">>,
      <<"i", "f">>,
      <<"i", "n">>,
      <<"i", "n", "s", "t", "a", "n", "c", "e", "o", "f">>,
      <<"n", "e", "w">>,
      <<"r", "e", "t", "u", "r", "n">>,
      <<"s", "w", "i", "t", "c", "h">>,
      <<"t", "h", "i", "s">>,
      <<"t", "h", "r", "o", "w">>,
      <<"t", "r", "y">>,
      <<"t", "y", "p", "e", "o", "f">>,
      <<"v", "a", "r">>,
      <<"v", "o", "i", "d">>,
      <<"w", "h", "i", "l", "e">>,
      <<"w", "i", "t", "h">>,
      <<"c", "l", "a", "s", "s">>,
      <<"c", "o", "n", "s", "t">>,
      <<"e", "n", "u", "m">>,
      <<"e", "x", "p", "o", "r", "t">>,
      <<"e", "x", "t", "e", "n", "d", "s">>,
      <<"i", "m", "p", "o", "r", "t">>,
      <<"s", "u", "p", "e", "r">>,
      <<"i", "m", "p", "l", "e", "m", "e", "n", "t", "s">>,
      <<"i", "n", "t", "e", "r", "f", "a", "c", "e">>,
      <<"l", "e", "t">>,
      <<"p", "a", "c", "k", "a", "g", "e">>,
      <<"p", "r", "i", "v", "a", "t", "e">>,
      <<"p", "r", "o", "t", "e", "c", "t", "e", "d">>,
      <<"p", "u", "b", "l", "i", "c">>,
      <<"s", "t", "a", "t", "i", "c">>,
      <<"y", "i", "e", "l", "d">>,
      <<"n", "u", "l", "l">>,
      <<"t", "r", "u", "e">>,
      <<"f", "a", "l", "s", "e">>
    >>

\* e.lastIndexOf(selector, 0) === 0
StartsWith(e, selector) ==
    Len(selector) <= Len(e) /\ SubSeq(e, 1, Len(selector)) = selector

\* code.indexOf(text): the 0-based index of the first occurrence, -1 if none.
IndexOf(code, text) ==
    LET at == {i \in 0..(Len(code) - Len(text)) :
                  SubSeq(code, i + 1, i + Len(text)) = text}
    IN  IF at = {} THEN -1
        ELSE CHOOSE i \in at : \A j \in at : i <= j

\* ShortestMatch that takes the last of the entries of least length.
ShortestMatchLast(matchList) ==
    LET last == CHOOSE i \in 1..Len(matchList) :
                    /\ \A j \in 1..Len(matchList) :
                           Len(matchList[i]) <= Len(matchList[j])
                    /\ \A j \in (i + 1)..Len(matchList) :
                           Len(matchList[j]) > Len(matchList[i])
    IN  matchList[last]

\* matchList.reduce(function(p, c) { return p.length <= c.length ? p : c; })
\* for a non-empty matchList: p is replaced only by a strictly shorter c, so
\* the result is the first of the entries of least length.
ShortestMatch(matchList) ==
    LET first == CHOOSE i \in 1..Len(matchList) :
                     /\ \A j \in 1..Len(matchList) :
                            Len(matchList[i]) <= Len(matchList[j])
                     /\ \A j \in 1..(i - 1) :
                            Len(matchList[j]) > Len(matchList[i])
    IN  matchList[first]

\* The loop that advances cursorEnd from cursorStart: the value of cursorEnd
\* when the loop is left, entered with the index i and cursorEnd.
RECURSIVE CursorEndLoop(_, _, _, _)
CursorEndLoop(code, shortestMatch, i, cursorEnd) ==
    IF i < Len(shortestMatch) /\ cursorEnd < Len(code)
    THEN IF CharAt(shortestMatch, i) # CharAt(code, cursorEnd) THEN cursorEnd
         ELSE CursorEndLoop(code, shortestMatch, i + 1, cursorEnd + 1)
    ELSE cursorEnd

\* MatchList with the reserved words appended whatever the scope.
MatchListAlwaysKeywords(expression, names) ==
    LET all == names \o javascriptKeywords
        kept == IF expression.selector # <<>>
                THEN SelectSeq(all, LAMBDA e : StartsWith(e, expression.selector))
                ELSE all
        left == expression.scope \o expression.leftOp
        right == expression.rightOp
    IN  IF left # <<>> \/ right # <<>>
        THEN [i \in 1..Len(kept) |-> left \o kept[i] \o right]
        ELSE kept

\* The matchList built by the onSuccess of the task of complete from the
\* names of the reply.
MatchList(expression, names) ==
    LET all == IF expression.scope = <<>> THEN names \o javascriptKeywords
               ELSE names
        kept == IF expression.selector # <<>>
                THEN SelectSeq(all, LAMBDA e : StartsWith(e, expression.selector))
                ELSE all
        left == expression.scope \o expression.leftOp
        right == expression.rightOp
    IN  IF left # <<>> \/ right # <<>>
        THEN [i \in 1..Len(kept) |-> left \o kept[i] \o right]
        ELSE kept

\* The CompletionResult object given to onCompletionSuccess.
CompletionResult(list, code, cursorPos, matchedText, cursorStart, cursorEnd) ==
    [completion |-> [list |-> list, code |-> code, cursorPos |-> cursorPos,
                     matchedText |-> matchedText, cursorStart |-> cursorStart,
                     cursorEnd |-> cursorEnd]]

\* The result built by the onSuccess of the task of complete.
CompletionOnSuccess(code, cursorPos, expression, names) ==
    LET matchList == MatchList(expression, names)
        cursorStart == IF Len(matchList) > 0
                       THEN IndexOf(code, expression.matchedText)
                       ELSE cursorPos
        cursorEnd == IF Len(matchList) > 0
                     THEN CursorEndLoop(code, ShortestMatch(matchList), 0,
                                        cursorStart)
                     ELSE cursorPos
    IN  CompletionResult(matchList, code, cursorPos, expression.matchedText,
                         cursorStart, cursorEnd)

\* The result complete gives to onCompletionSuccess when the parse is null.
CompletionNull(code, cursorPos) ==
    CompletionResult(<<>>, code, cursorPos, <<>>, cursorPos, cursorPos)

\* ------------------------------------------------ the inspection result
Letters == LowerCase \cup UpperCase
ErrorWord == <<"E", "r", "r", "o", "r">>
ArrayWord == <<"A", "r", "r", "a", "y">>
ErrorPrefix == <<"E", "r", "r", "o", "r", ".">>
TypedArrayPrefix == <<"T", "y", "p", "e", "d", "A", "r", "r", "a", "y", ".">>
DotPrototypeDot == <<".", "p", "r", "o", "t", "o", "t", "y", "p", "e", ".">>

\* The keys of the documentation table doc (lib/mdn.js) that matter here.
DocKeys ==
    { <<"i">>,
      <<"O", ".", "p", "r", "o", "t", "o", "t", "y", "p", "e", ".", "i">>,
      <<"E", "r", "r", "o", "r", ".", "p", "r", "o", "t", "o", "t", "y", "p", "e", ".", "i">>,
      <<"T", "y", "p", "e", "d", "A", "r", "r", "a", "y", ".", "p", "r", "o", "t", "o", "t", "y", "p", "e", ".", "i">> }

\* doc[key] for a key of the table; NoDoc is the null of getDocumentation.
NoDoc == [isNull |-> TRUE]
DocOf(key) == [description |-> key]

\* name.replace(/^[a-zA-Z]+<word>./, replacement): [a-zA-Z]+ is greedy, so
\* the match with the longest run of letters before the word is replaced.
ReplacePrefix(name, word, replacement) ==
    LET ks == {k \in 1..Len(name) :
                  /\ \A j \in 1..k : name[j] \in Letters
                  /\ k + Len(word) + 1 <= Len(name)
                  /\ SubSeq(name, k + 1, k + Len(word)) = word
                  /\ name[k + Len(word) + 1] \notin LineTerminators}
    IN  IF ks = {} THEN name
        ELSE LET k == CHOOSE x \in ks : \A y \in ks : y <= x
             IN  replacement \o SubSeq(name, k + Len(word) + 2, Len(name))

getDocumentation(name) ==
    LET asError == ReplacePrefix(name, ErrorWord, ErrorPrefix)
        asArray == ReplacePrefix(name, ArrayWord, TypedArrayPrefix)
    IN  IF name \in DocKeys THEN DocOf(name)
        ELSE IF asError \in DocKeys THEN DocOf(asError)
        ELSE IF asArray \in DocKeys THEN DocOf(asArray)
        ELSE NoDoc

\* The InspectionResult inspect gives to onInspectionSuccess when the parse
\* is null.
InspectionNull(code, cursorPos) ==
    [inspection |-> [code |-> code, cursorPos |-> cursorPos,
                     matchedText |-> <<>>, string |-> <<>>, type |-> <<>>]]

\* The inspection of a reply; constructorList is an optional property.
Inspection(string, type) == [inspection |-> [string |-> string, type |-> type]]
InspectionOf(string, type, constructorList) ==
    [inspection |-> [string |-> string, type |-> type,
                     constructorList |-> constructorList]]
HasConstructorList(result) == "constructorList" \in DOMAIN result.inspection

\* The onSuccess of the first task of inspect stamps code, cursorPos and
\* matchedText on the result of the reply.
Stamp(result, code, cursorPos, matchedText) ==
    LET r == result.inspection
    IN  IF HasConstructorList(result)
        THEN [inspection |-> [string |-> r.string, type |-> r.type,
                              constructorList |-> r.constructorList,
                              code |-> code, cursorPos |-> cursorPos,
                              matchedText |-> matchedText]]
        ELSE [inspection |-> [string |-> r.string, type |-> r.type,
                              code |-> code, cursorPos |-> cursorPos,
                              matchedText |-> matchedText]]

\* if (doc) { inspectionResult.doc = doc; }
AttachDoc(inspectionResult, d) ==
    IF d = NoDoc THEN inspectionResult
    ELSE [inspection |-> inspectionResult.inspection, doc |-> d]

\* ConstructorDoc without the break: the doc of the last constructor with
\* documentation.
RECURSIVE ConstructorDocLast(_, _, _)
ConstructorDocLast(constructorList, selector, i) ==
    IF i > Len(constructorList) THEN NoDoc
    ELSE LET d == getDocumentation(constructorList[i] \o DotPrototypeDot
                                   \o selector)
             rest == ConstructorDocLast(constructorList, selector, i + 1)
         IN  IF rest # NoDoc THEN rest ELSE d

\* The loop over constructorList from index i: the doc of the first
\* constructor with documentation of <constructor>.prototype.<selector>.
RECURSIVE ConstructorDoc(_, _, _)
ConstructorDoc(constructorList, selector, i) ==
    IF i > Len(constructorList) THEN NoDoc
    ELSE LET d == getDocumentation(constructorList[i] \o DotPrototypeDot
                                   \o selector)
         IN  IF d # NoDoc THEN d
             ELSE ConstructorDoc(constructorList, selector, i + 1)

\* The doc found by the onSuccess of the second task of inspect.
ScopeDoc(result, selector) ==
    IF HasConstructorList(result)
    THEN ConstructorDoc(result.inspection.constructorList, selector, 1)
    ELSE NoDoc

\* ------------------------------------------------------------ the session
\* The program state as one record, threaded through the handlers.
Cur ==
    [task |-> _task, tasks |-> _tasks, killed |-> _killed, server |-> _server,
     spawned |-> spawned, status |-> status, inbox |-> inbox, msgL |-> msgL,
     exitL |-> exitL, calls |-> calls, tbl |-> tbl, kills |-> kills,
     nested |-> nested, step |-> step + 1, log |-> log]

\* What an event of the history records of the session at its moment.
\* The events: a public call ("execute", "complete", "inspect", "kill",
\* "restart", id = the call), "_run" and "_run.return" (id = the task),
\* "send" (id = the task, h = the handle), "reply" and "exit" (of the worker
\* h), "_onMessage" (id = this._task, arg = the message), and the callbacks
\* of the caller ("beforeRun", "onSuccess", "onError", "afterRun", id = the
\* call; "onKilled", "onRestarted", id = the kill or restart call).
Snap(s) ==
    [task |-> s.task, tasks |-> s.tasks, killed |-> s.killed,
     server |-> s.server, listening |-> s.msgL[s.server],
     status |-> s.status[s.server]]

\* The event is appended to the history of s (x is s, evaluated once).
Emit(s, ev, id, h, arg) ==
    LET Event(x) == [ev |-> ev, id |-> id, h |-> h, arg |-> arg,
                     step |-> x.step, snap |-> Snap(x)]
    IN  CHOOSE r \in {[x EXCEPT !.log = Append(@, Event(x))] : x \in {s}} :
            TRUE

\* SessionInit without the reset of this._tasks.
SessionInitKeepTasks(s) ==
    LET h == s.spawned + 1
    IN  [s EXCEPT !.task = Null,
                  !.spawned = h,
                  !.server = h,
                  !.status[h] = "running",
                  !.killed = FALSE,
                  !.msgL[h] = TRUE]

\* SessionInit without the reset of this._task and this._tasks.
SessionInitKeepQueue(s) ==
    LET h == s.spawned + 1
    IN  [s EXCEPT !.spawned = h,
                  !.server = h,
                  !.status[h] = "running",
                  !.killed = FALSE,
                  !.msgL[h] = TRUE]

\* new Session(): the constructor body, also run in place by restart.
SessionInit(s) ==
    LET h == s.spawned + 1
    IN  [s EXCEPT !.task = Null,
                  !.tasks = <<>>,
                  !.spawned = h,
                  !.server = h,
                  !.status[h] = "running",
                  !.killed = FALSE,
                  !.msgL[h] = TRUE]

\* this._server.send([action, code])
Send(s, h, t) ==
    LET s1 == Emit(s, "send", t, h, NoMsg)
    IN  IF s1.status[h] = "exited" THEN s1
        ELSE [s1 EXCEPT !.inbox[h] = Append(@, t)]

\* Session.prototype.kill; restart calls it with its own callback.
KillImpl(s, restart, cb) ==
    LET h == s.server
        k == Len(s.kills) + 1
        s1 == Emit([s EXCEPT !.kills = Append(@, [h |-> h, restart |-> restart,
                                                  cb |-> cb])],
                   IF restart THEN "restart" ELSE "kill", k, h, NoMsg)
    IN  [s1 EXCEPT !.killed = TRUE,
                   !.msgL[h] = FALSE,
                   !.status[h] = IF @ = "running" THEN "signalled" ELSE @,
                   !.exitL[h] = <<k>>]

\* RunLater with unshift in place of push.
RunLaterFront(s, t) == [s EXCEPT !.tasks = <<t>> \o @]

\* Session.prototype._runLater
RunLater(s, t) == [s EXCEPT !.tasks = Append(@, t)]

\* The task literal of a public call c; the caller supplies all callbacks,
\* and afterRun says whether the literal has an afterRun property.
NewTask(s, c, action, code, onSuccess, afterRun) ==
    [s EXCEPT !.tbl = Append(@, [action |-> action, code |-> code, call |-> c,
                                 onSuccess |-> onSuccess, onError |-> TRUE,
                                 beforeRun |-> TRUE, afterRun |-> afterRun])]

\* A public call: its arguments and the variables its closures share
\* (expression, and the inspectionResult of inspect).
NewCall(s, op, code, cursorPos, expression) ==
    Emit([s EXCEPT !.calls = Append(@, [op |-> op, code |-> code,
                                        cursorPos |-> cursorPos,
                                        expression |-> expression,
                                        inspectionResult |-> Undefined])],
         op, Len(s.calls) + 1, s.server, NoMsg)

RECURSIVE UserCallback(_, _, _, _)
RECURSIVE RunNow(_, _)
RECURSIVE Run(_, _)
RECURSIVE Execute(_)

\* RunNow that does not record the task in this._task.
RunNowTaskUnset(s, t) ==
    LET before == IF s.tbl[t].beforeRun
                  THEN UserCallback(s, "beforeRun", s.tbl[t].call, NoMsg)
                  ELSE {s}
    IN  {Send(s2, s2.server, t) : s2 \in before}

\* RunNow with the request sent before beforeRun is invoked.
RunNowSendFirst(s, t) ==
    LET s1 == Send([s EXCEPT !.task = t], s.server, t)
    IN  IF s1.tbl[s1.task].beforeRun
        THEN UserCallback(s1, "beforeRun", s1.tbl[s1.task].call, NoMsg)
        ELSE {s1}

\* Session.prototype._runNow
RunNow(s, t) ==
    LET s1 == [s EXCEPT !.task = t]
        before == IF s1.tbl[s1.task].beforeRun
                  THEN UserCallback(s1, "beforeRun", s1.tbl[s1.task].call, NoMsg)
                  ELSE {s1}
    IN  {Send(s2, s2.server, s2.task) : s2 \in before}

\* Run without the test of this._task: every task is run at once.
RunNoQueue(s, t) ==
    LET s1 == Emit(s, "_run", t, s.server, NoMsg)
        ran == IF s1.killed THEN {s1} ELSE RunNow(s1, t)
    IN  {Emit(s2, "_run.return", t, s2.server, NoMsg) : s2 \in ran}

\* Run without the test of this._killed.
RunIgnoreKilled(s, t) ==
    LET s1 == Emit(s, "_run", t, s.server, NoMsg)
        ran == IF s1.task = Null THEN RunNow(s1, t) ELSE {RunLater(s1, t)}
    IN  {Emit(s2, "_run.return", t, s2.server, NoMsg) : s2 \in ran}

\* Session.prototype._run
Run(s, t) ==
    LET s1 == Emit(s, "_run", t, s.server, NoMsg)
        ran == IF s1.killed THEN {s1}
               ELSE IF s1.task = Null THEN RunNow(s1, t)
               ELSE {RunLater(s1, t)}
    IN  {Emit(s2, "_run.return", t, s2.server, NoMsg) : s2 \in ran}

\* Session.prototype.execute
Execute(s) ==
    LET s1 == NewCall(s, "execute", ExecCode, 0, Undefined)
        s2 == NewTask(s1, Len(s1.calls), "run", ExecCode, "user", TRUE)
    IN  Run(s2, Len(s2.tbl))

\* A callback supplied by the caller is invoked: it returns at once, or
\* calls execute, kill or restart before it returns.
UserCallback(s, name, id, arg) ==
    LET Returns(s1, s2) ==
            IF s1.nested < MaxNested
               /\ Len(s1.calls) + Len(s1.kills) < MaxCalls
            THEN {s1} \cup Execute(s2)
                      \cup {KillImpl(s2, FALSE, TRUE), KillImpl(s2, TRUE, TRUE)}
            ELSE {s1}
    IN  UNION {Returns(s1, [s1 EXCEPT !.nested = @ + 1]) :
                  s1 \in {Emit(s, name, id, s.server, arg)}}

\* The variable expression of the call c, read by its closures.
ExpressionOf(s, c) == s.calls[c].expression

\* Complete without the early return for a null expression: the task for the
\* global scope is run as well.
CompleteNullRuns(s, code, cursorPos) ==
    LET expression == parseExpression(code, cursorPos)
        s1 == NewCall(s, "complete", code, cursorPos, expression)
        c == Len(s1.calls)
        s2 == NewTask(s1, c, "getAllPropertyNames",
                      IF expression.scope = <<>> THEN GlobalCode
                      ELSE expression.scope,
                      "complete", TRUE)
    IN  IF expression = NullExpression
        THEN UNION {Run(s4, Len(s4.tbl)) :
                       s4 \in {NewTask(s0, c, "getAllPropertyNames", GlobalCode,
                                       "user", TRUE) :
                                   s0 \in UserCallback(s1, "onSuccess", c,
                                              CompletionNull(code, cursorPos))}}
        ELSE Run(s2, Len(s2.tbl))

\* Session.prototype.complete
Complete(s, code, cursorPos) ==
    LET expression == parseExpression(code, cursorPos)
        s1 == NewCall(s, "complete", code, cursorPos, expression)
        c == Len(s1.calls)
        s2 == NewTask(s1, c, "getAllPropertyNames",
                      IF expression.scope = <<>> THEN GlobalCode
                      ELSE expression.scope,
                      "complete", TRUE)
    IN  IF expression = NullExpression
        THEN UserCallback(s1, "onSuccess", c, CompletionNull(code, cursorPos))
        ELSE Run(s2, Len(s2.tbl))

\* Session.prototype.inspect
Inspect(s, code, cursorPos) ==
    LET expression == parseExpression(code, cursorPos)
        s1 == NewCall(s, "inspect", code, cursorPos, expression)
        c == Len(s1.calls)
        s2 == NewTask(s1, c, "inspect", expression.matchedText, "inspect",
                      FALSE)
    IN  IF expression = NullExpression
        THEN UserCallback(s1, "onSuccess", c, InspectionNull(code, cursorPos))
        ELSE Run(s2, Len(s2.tbl))

\* invokeCallbacks of inspect
invokeCallbacks(s, c) ==
    UNION {UserCallback(s1, "afterRun", c, NoMsg) :
              s1 \in UserCallback(s, "onSuccess", c,
                                  s.calls[c].inspectionResult)}

\* getDocumentationAndInvokeCallbacks that invokes the callbacks at once and
\* then submits the scope request.
getDocumentationAndInvokeEarly(s, c) ==
    LET expression == ExpressionOf(s, c)
        doc == getDocumentation(expression.matchedText)
    IN  IF expression.scope = <<>>
        THEN invokeCallbacks(
                 [s EXCEPT !.calls[c].inspectionResult = AttachDoc(@, doc)], c)
        ELSE UNION {Run(s2, Len(s2.tbl)) :
                       s2 \in {NewTask(s1, c, "inspect", expression.scope,
                                       "inspectScope", FALSE) :
                                   s1 \in invokeCallbacks(s, c)}}

\* getDocumentationAndInvokeCallbacks of inspect
getDocumentationAndInvokeCallbacks(s, c) ==
    LET expression == ExpressionOf(s, c)
        doc == getDocumentation(expression.matchedText)
        s1 == NewTask(s, c, "inspect", expression.scope, "inspectScope", FALSE)
    IN  IF expression.scope = <<>>
        THEN invokeCallbacks(
                 [s EXCEPT !.calls[c].inspectionResult = AttachDoc(@, doc)], c)
        ELSE Run(s1, Len(s1.tbl))

\* The onSuccess function of the task literal of complete.
CompleteOnSuccess(s, c, m) ==
    UserCallback(s, "onSuccess", c,
                 CompletionOnSuccess(s.calls[c].code, s.calls[c].cursorPos,
                                     ExpressionOf(s, c), m.result.names))

\* The onSuccess function of the first task literal of inspect.
InspectOnSuccess(s, c, m) ==
    getDocumentationAndInvokeCallbacks(
        [s EXCEPT !.calls[c].inspectionResult =
                      Stamp(m.result, s.calls[c].code, s.calls[c].cursorPos,
                            ExpressionOf(s, c).matchedText)], c)

\* The onSuccess function of the second task literal of inspect.
InspectScopeOnSuccess(s, c, m) ==
    invokeCallbacks(
        [s EXCEPT !.calls[c].inspectionResult =
                      AttachDoc(@, ScopeDoc(m.result,
                                            ExpressionOf(s, c).selector))], c)

\* OnSuccess with the callback of execute invoked without the message.
OnSuccessNoMessage(s, t, m) ==
    LET c == s.tbl[t].call
    IN  CASE s.tbl[t].onSuccess = "user" -> UserCallback(s, "onSuccess", c, NoMsg)
          [] s.tbl[t].onSuccess = "complete" -> CompleteOnSuccess(s, c, m)
          [] s.tbl[t].onSuccess = "inspect" -> InspectOnSuccess(s, c, m)
          [] s.tbl[t].onSuccess = "inspectScope" -> InspectScopeOnSuccess(s, c, m)

\* task.onSuccess(message), by the function the task literal holds
OnSuccess(s, t, m) ==
    LET c == s.tbl[t].call
    IN  CASE s.tbl[t].onSuccess = "user" -> UserCallback(s, "onSuccess", c, m)
          [] s.tbl[t].onSuccess = "complete" -> CompleteOnSuccess(s, c, m)
          [] s.tbl[t].onSuccess = "inspect" -> InspectOnSuccess(s, c, m)
          [] s.tbl[t].onSuccess = "inspectScope" -> InspectScopeOnSuccess(s, c, m)

\* OnMessage where an error reply falls through to the success callback of
\* the caller after onError.
\* OnMessage that never takes the next task off the queue.
OnMessageKeepsQueue(s, m) ==
    LET Outcome(s0) ==
            IF m.error
            THEN IF s0.tbl[s0.task].onError
                 THEN UserCallback(s0, "onError", s0.tbl[s0.task].call, m)
                 ELSE {s0}
            ELSE OnSuccess(s0, s0.task, m)
        AfterRun(s1) ==
            IF s1.tbl[s1.task].afterRun
            THEN UserCallback(s1, "afterRun", s1.tbl[s1.task].call, NoMsg)
            ELSE {s1}
    IN  IF s.task = Null
        THEN {Emit(s, "TypeError", Null, s.server, m)}
        ELSE LET outcomes == Outcome(Emit(s, "_onMessage", s.task, s.server, m))
                 afterRuns == UNION {AfterRun(s1) : s1 \in outcomes}
             IN  {[s2 EXCEPT !.task = Null] : s2 \in afterRuns}

OnMessageErrorFallsThrough(s, m) ==
    LET Outcome(s0) ==
            IF m.error
            THEN UNION {UserCallback(s1, "onSuccess", s1.tbl[s1.task].call, m) :
                           s1 \in UserCallback(s0, "onError",
                                               s0.tbl[s0.task].call, m)}
            ELSE OnSuccess(s0, s0.task, m)
        AfterRun(s1) ==
            IF s1.tbl[s1.task].afterRun
            THEN UserCallback(s1, "afterRun", s1.tbl[s1.task].call, NoMsg)
            ELSE {s1}
        NextTask(s2) ==
            IF Len(s2.tasks) > 0
            THEN RunNow([s2 EXCEPT !.tasks = Tail(@)], Head(s2.tasks))
            ELSE {[s2 EXCEPT !.task = Null]}
    IN  IF s.task = Null
        THEN {Emit(s, "TypeError", Null, s.server, m)}
        ELSE LET outcomes == Outcome(Emit(s, "_onMessage", s.task, s.server, m))
                 afterRuns == UNION {AfterRun(s1) : s1 \in outcomes}
             IN  UNION {NextTask(s2) : s2 \in afterRuns}

\* Session.prototype._onMessage
OnMessage(s, m) ==
    LET Outcome(s0) ==
            IF m.error
            THEN IF s0.tbl[s0.task].onError
                 THEN UserCallback(s0, "onError", s0.tbl[s0.task].call, m)
                 ELSE {s0}
            ELSE OnSuccess(s0, s0.task, m)
        AfterRun(s1) ==
            IF s1.tbl[s1.task].afterRun
            THEN UserCallback(s1, "afterRun", s1.tbl[s1.task].call, NoMsg)
            ELSE {s1}
        NextTask(s2) ==
            IF Len(s2.tasks) > 0
            THEN RunNow([s2 EXCEPT !.tasks = Tail(@)], Head(s2.tasks))
            ELSE {[s2 EXCEPT !.task = Null]}
    IN  IF s.task = Null
        THEN {Emit(s, "TypeError", Null, s.server, m)}
        ELSE LET outcomes == Outcome(Emit(s, "_onMessage", s.task, s.server, m))
                 afterRuns == UNION {AfterRun(s1) : s1 \in outcomes}
             IN  UNION {NextTask(s2) : s2 \in afterRuns}

\* The "exit" listener installed by kill, wrapping killCB; the killCB of
\* restart re-initialises the session and calls restartCB.
ExitListener(s, k) ==
    IF s.kills[k].restart
    THEN LET s1 == SessionInit(s)
         IN  IF s1.kills[k].cb
             THEN UserCallback(s1, "onRestarted", k, NoMsg)
             ELSE {s1}
    ELSE IF s.kills[k].cb
         THEN UserCallback(s, "onKilled", k, NoMsg)
         ELSE {s}

\* emit("exit"): the listeners registered when the event is emitted, in order
RECURSIVE RunListeners(_, _)
RunListeners(s, ls) ==
    IF ls = <<>> THEN {s}
    ELSE UNION {RunListeners(s1, Tail(ls)) : s1 \in ExitListener(s, Head(ls))}

\* ----------------------------------------------------------------- actions
Commit(s) ==
    /\ Len(s.calls) + Len(s.kills) <= MaxCalls
    /\ _task' = s.task
    /\ _tasks' = s.tasks
    /\ _killed' = s.killed
    /\ _server' = s.server
    /\ spawned' = s.spawned
    /\ status' = s.status
    /\ inbox' = s.inbox
    /\ msgL' = s.msgL
    /\ exitL' = s.exitL
    /\ calls' = s.calls
    /\ tbl' = s.tbl
    /\ kills' = s.kills
    /\ nested' = s.nested
    /\ step' = s.step
    /\ log' = s.log

Init ==
    /\ _task = Null
    /\ _tasks = <<>>
    /\ _killed = FALSE
    /\ _server = 1
    /\ spawned = 1
    /\ status = [h \in Handles |-> IF h = 1 THEN "running" ELSE "unborn"]
    /\ inbox = [h \in Handles |-> <<>>]
    /\ msgL = [h \in Handles |-> h = 1]
    /\ exitL = [h \in Handles |-> <<>>]
    /\ calls = <<>>
    /\ tbl = <<>>
    /\ kills = <<>>
    /\ nested = 0
    /\ step = 0
    /\ log = <<>>

\* session.execute(code, onSuccess, onError, beforeRun, afterRun)
CallExecute == \E s \in Execute(Cur) : Commit(s)

\* session.complete(code, cursorPos, onSuccess, onError, beforeRun, afterRun)
CallComplete ==
    \E code \in Codes : \E s \in Complete(Cur, code, Len(code)) : Commit(s)

\* session.inspect(code, cursorPos, onSuccess, onError, beforeRun, afterRun)
CallInspect ==
    \E code \in Codes : \E s \in Inspect(Cur, code, Len(code)) : Commit(s)

\* session.kill(signal, killCB)
CallKill == Commit(KillImpl(Cur, FALSE, TRUE))

\* session.restart(signal, restartCB)
CallRestart == Commit(KillImpl(Cur, TRUE, TRUE))

\* The worker h replies to its oldest request with the result or error
\* payload; the "message" event is delivered to _onMessage if it is still
\* listening.
Reply(h, err, payload) ==
    /\ status[h] \in {"running", "signalled"}
    /\ inbox[h] # <<>>
    /\ \E m \in {[error |-> err, h |-> h, req |-> Head(inbox[h]),
                   result |-> payload]} :
           \E s1 \in {Emit([Cur EXCEPT !.inbox[h] = Tail(@)], "reply",
                            Head(inbox[h]), h, m)} :
               \E s \in (IF msgL[h] THEN OnMessage(s1, m) ELSE {s1}) :
                   Commit(s)

\* The payloads of the replies of the worker to a request for an action.
ErrorPayload == [ename |-> "Error"]
Names == {<<>>, << <<"a", "b">>, <<"b">> >>}
Payloads(action, err) ==
    IF err THEN {ErrorPayload}
    ELSE CASE action = "run" -> {[mime |-> ExecCode]}
           [] action = "getAllPropertyNames" -> {[names |-> ns] : ns \in Names}
           [] action = "inspect" ->
                  {Inspection(<<"1">>, <<"n">>),
                   InspectionOf(<<"1">>, <<"n">>, << <<"O">> >>)}

WorkerReply ==
    \E h \in Handles, err \in BOOLEAN :
        /\ inbox[h] # <<>>
        /\ \E payload \in Payloads(tbl[Head(inbox[h])].action, err) :
               Reply(h, err, payload)

\* The signalled worker h exits; the "exit" event runs the listeners that
\* are registered at that moment.
WorkerExit ==
    \E h \in Handles :
        /\ status[h] = "signalled"
        /\ LET s1 == Emit([Cur EXCEPT !.status[h] = "exited"], "exit", 0, h,
                          NoMsg)
           IN  \E s \in RunListeners(s1, s1.exitL[h]) : Commit(s)

Next ==
    \/ CallExecute
    \/ CallComplete
    \/ CallInspect
    \/ CallKill
    \/ CallRestart
    \/ WorkerReply
    \/ WorkerExit

Spec == Init /\ [][Next]_vars

\* ------------------------------------------- single calls on chosen inputs
\* A second specification for the results of complete and inspect as
\* functions of their inputs: one call of complete or inspect per behaviour,
\* on any code over Alphabet of at most MaxCodeLen characters or one of
\* LongCodes, with the cursor at any position, the worker replying with any of the InputPayloads; the
\* callbacks of the caller return at once.
Alphabet == {"i", ".", "[", "\"", "'", " "}
\* Longer codes: a bracket access with a selector, a code in which the
\* matched text also occurs before the cursor's expression.
LongCodes ==
    {<<"i", "[", "'", "i">>, <<"i", "[", "\"", "i">>,
     <<"i", ".", "i", " ", "i", ".", "i">>}
InputCodes == UNION {[1..n -> Alphabet] : n \in 0..MaxCodeLen} \cup LongCodes
InputNames ==
    {<<>>, << <<"a">>, <<"i">> >>, << <<"i", "i">>, <<"i">>, <<"a">>, <<"i">> >>}
InputConstructorLists ==
    {<<>>, << <<"O">> >>, << <<"E">>, <<"O">> >>,
     << <<"i", "E", "r", "r", "o", "r">>, <<"O">> >>,
     << <<"i", "A", "r", "r", "a", "y">>, <<"E">> >>}
InputPayloads(action) ==
    CASE action = "getAllPropertyNames" -> {[names |-> ns] : ns \in InputNames}
      [] action = "inspect" ->
             {Inspection(<<"1">>, <<"n">>)}
             \cup {InspectionOf(<<"1">>, <<"n">>, l) : l \in InputConstructorLists}

InitSingle ==
    /\ _task = Null
    /\ _tasks = <<>>
    /\ _killed = FALSE
    /\ _server = 1
    /\ spawned = 1
    /\ status = [h \in Handles |-> IF h = 1 THEN "running" ELSE "unborn"]
    /\ inbox = [h \in Handles |-> <<>>]
    /\ msgL = [h \in Handles |-> h = 1]
    /\ exitL = [h \in Handles |-> <<>>]
    /\ calls = <<>>
    /\ tbl = <<>>
    /\ kills = <<>>
    /\ nested = MaxNested
    /\ step = 0
    /\ log = <<>>

CompleteAt ==
    /\ calls = <<>>
    /\ \E code \in InputCodes : \E cursorPos \in 0..Len(code) :
           \E s \in Complete(Cur, code, cursorPos) : Commit(s)

InspectAt ==
    /\ calls = <<>>
    /\ \E code \in InputCodes : \E cursorPos \in 0..Len(code) :
           \E s \in Inspect(Cur, code, cursorPos) : Commit(s)

ReplyWith ==
    \E h \in Handles :
        /\ inbox[h] # <<>>
        /\ \E payload \in InputPayloads(tbl[Head(inbox[h])].action) :
               Reply(h, FALSE, payload)

NextSingle == CompleteAt \/ InspectAt \/ ReplyWith

SingleSpec == InitSingle /\ [][NextSingle]_vars

\* ------------------------------------------------ sessions that are not killed
\* A third specification for what a session does as long as kill and restart
\* are never called, by the caller or by one of its callbacks: the steps of
\* Next that leave kills empty.  The worker replies to every request it has
\* received, and the event loop delivers every reply: the reply step is
\* taken if it stays possible.
ExecuteNoKill == CallExecute /\ kills' = <<>>

CompleteNoKill == CallComplete /\ kills' = <<>>

InspectNoKill == CallInspect /\ kills' = <<>>

ReplyNoKill == WorkerReply /\ kills' = <<>>

NextNoKill == ExecuteNoKill \/ CompleteNoKill \/ InspectNoKill \/ ReplyNoKill

NoKillSpec == Init /\ [][NextNoKill]_vars /\ WF_vars(ReplyNoKill)

\* ------------------------------------------------------ reading the history
Pos == 1..Len(log)
Outcomes == {"onSuccess", "onError"}
TaskCallbacks == {"beforeRun", "onSuccess", "onError", "afterRun"}
Callbacks == TaskCallbacks \cup {"onKilled", "onRestarted"}
KillCalls == {"kill", "restart"}
TaskCalls == {"execute", "complete", "inspect"}

\* The ids of the events named ev, in the order of the history.
IdsOf(ev) ==
    LET F[i \in 0..Len(log)] ==
            IF i = 0 THEN <<>>
            ELSE IF log[i].ev = ev THEN Append(F[i - 1], log[i].id)
            ELSE F[i - 1]
    IN  F[Len(log)]

IsPrefix(a, b) == Len(a) <= Len(b) /\ SubSeq(b, 1, Len(a)) = a
InSeq(x, q) == \E i \in 1..Len(q) : q[i] = x
Count(S) == Cardinality(S)

\* Event i is a callback of the caller invoked for the in-flight task t.
CallbackOf(i, t) ==
    /\ log[i].ev \in TaskCallbacks
    /\ log[i].snap.task = t
    /\ log[i].id = tbl[t].call

\* Event i is a public call made from inside a callback.
NestedCall(i) ==
    /\ i > 1
    /\ log[i].ev \in TaskCalls \cup KillCalls
    /\ log[i - 1].ev \in Callbacks
    /\ log[i - 1].step = log[i].step

\* Event i sends task t to a worker.
SendOf(i, t) == log[i].ev = "send" /\ log[i].id = t

\* ------------------------------------------------------------------ claims
\* C1: at most one request is outstanding: whenever the session sends a
\* request to a worker handle, every request sent to that handle before has
\* been replied to.
C1_AtMostOneOutstanding ==
    \A i \in Pos : log[i].ev = "send" =>
        Count({j \in 1..(i - 1) : log[j].ev = "send" /\ log[j].h = log[i].h})
        = Count({j \in 1..(i - 1) : log[j].ev = "reply" /\ log[j].h = log[i].h})

\* A task submitted from inside a callback, while a request was outstanding,
\* has been sent to the handle that served the earlier request.
C1_Witness ==
    \E c \in Pos, i \in Pos, j \in Pos :
        /\ NestedCall(c) /\ log[c].ev = "execute"
        /\ log[c].snap.task # Null
        /\ c < i /\ SendOf(i, log[c + 1].id) /\ log[c + 1].ev = "_run"
        /\ j < i /\ log[j].ev = "send" /\ log[j].h = log[i].h

\* C2: without kill or restart, tasks are sent in the order they were
\* submitted to _run, and a task is sent only after the reply to every task
\* submitted before it has been processed, the callbacks of that reply
\* included.
C2_FifoDispatch ==
    kills = <<>> =>
        /\ IsPrefix(IdsOf("send"), IdsOf("_run"))
        /\ \A i \in Pos : log[i].ev = "send" =>
               \A r \in 1..i : (log[r].ev = "_run" /\ log[r].id = log[i].id) =>
                   \A q \in 1..(r - 1) : log[q].ev = "_run" =>
                       \E j \in 1..(i - 1) :
                           /\ log[j].ev = "_onMessage" /\ log[j].id = log[q].id
                           /\ \A k \in i..Len(log) :
                                  ~(/\ log[k].step = log[j].step
                                    /\ log[k].ev \in {"onSuccess", "onError",
                                                      "afterRun"}
                                    /\ CallbackOf(k, log[q].id))

\* Three tasks were sent without any kill, two of them after waiting
\* together in the queue.
C2_Witness ==
    /\ kills = <<>>
    /\ Len(IdsOf("send")) = 3
    /\ \E i \in Pos : Len(log[i].snap.tasks) = 2

\* C3 (as claimed): after kill or restart has been invoked on a worker
\* handle, no message is sent to that handle.
C3_NoSendAfterKill ==
    \A i \in Pos, j \in Pos :
        (log[i].ev \in KillCalls /\ i < j /\ log[j].ev = "send")
        => log[j].h # log[i].h

\* C4: a call of execute, or of complete or inspect with a parsable
\* expression, made while _killed is set is dropped: _run returns at once,
\* nothing is sent, and _task and _tasks are as they were.
C4_DroppedWhileKilled ==
    \A i \in Pos :
        (/\ log[i].ev \in TaskCalls
         /\ log[i].snap.killed
         /\ parseExpression(calls[log[i].id].code, calls[log[i].id].cursorPos)
                # NullExpression)
        => /\ i + 2 <= Len(log)
           /\ log[i + 1].ev = "_run"
           /\ log[i + 2].ev = "_run.return"
           /\ log[i + 2].id = log[i + 1].id
           /\ log[i + 2].snap.task = log[i].snap.task
           /\ log[i + 2].snap.tasks = log[i].snap.tasks
           /\ \A j \in Pos : log[j].ev = "send" => tbl[log[j].id].call # log[i].id

\* An inspect of a parsable expression was called after kill while a task
\* was in flight.
C4_Witness ==
    \E i \in Pos :
        /\ log[i].ev = "inspect"
        /\ log[i].snap.killed
        /\ log[i].snap.task # Null
        /\ parseExpression(calls[log[i].id].code, calls[log[i].id].cursorPos)
               # NullExpression

\* C5 (as claimed): no callback of a task that was in the queue when kill or
\* restart was invoked is invoked afterwards.
C5_QueuedAbandoned ==
    \A i \in Pos, j \in Pos :
        (log[i].ev \in KillCalls /\ i < j)
        => \A q \in 1..Len(log[i].snap.tasks) :
               ~CallbackOf(j, log[i].snap.tasks[q])

\* C6: the reply processed for an execute task is given to exactly one of
\* onSuccess and onError of that call, once: to onError iff it has an error
\* key.
C6_ReplyRouting ==
    \A j \in Pos :
        (log[j].ev = "_onMessage" /\ tbl[log[j].id].action = "run")
        => LET outs == {k \in Pos : /\ log[k].ev \in Outcomes
                                    /\ log[k].id = tbl[log[j].id].call}
           IN  /\ Count(outs) = 1
               /\ \A k \in outs :
                      /\ k = j + 1
                      /\ log[k].arg = log[j].arg
                      /\ (log[k].ev = "onError") <=> log[j].arg.error

\* An error reply and a success reply to execute tasks have been processed.
C6_Witness ==
    \E i \in Pos, j \in Pos :
        /\ log[i].ev = "_onMessage" /\ tbl[log[i].id].action = "run"
        /\ log[j].ev = "_onMessage" /\ tbl[log[j].id].action = "run"
        /\ log[i].arg.error /\ ~log[j].arg.error

\* C7 (as claimed): without kill, whenever processing a reply invokes the
\* outcome callback of a call, it invokes the afterRun of that call after it.
C7_AfterRunAlways ==
    kills = <<>> =>
        \A j \in Pos :
            (log[j].ev \in Outcomes /\ log[j].snap.task # Null
             /\ CallbackOf(j, log[j].snap.task))
            => \E k \in (j + 1)..Len(log) :
                   /\ log[k].ev = "afterRun"
                   /\ log[k].id = log[j].id
                   /\ log[k].step = log[j].step

\* Event b is the beforeRun of task t, invoked with t in flight.
BeforeRunOf(b, t) ==
    /\ log[b].ev = "beforeRun"
    /\ log[b].id = tbl[t].call
    /\ log[b].snap.task = t
    /\ ~InSeq(t, log[b].snap.tasks)

\* C8: beforeRun is invoked when its task has become the in-flight task and
\* directly before the task is sent, no other callback or send in between;
\* and, without kill, between the sends of consecutive tasks A and B the
\* reply to A is processed, its callbacks run before the beforeRun of B.
C8_BeforeRunAtDispatch ==
    /\ \A i \in Pos : log[i].ev = "send" =>
           \E b \in 1..(i - 1) :
               /\ BeforeRunOf(b, log[i].id)
               /\ log[b].step = log[i].step
               /\ \A k \in (b + 1)..(i - 1) :
                      log[k].ev \notin Callbacks \cup {"send", "_onMessage"}
    /\ \A b \in Pos : log[b].ev = "beforeRun" =>
           /\ log[b].snap.task # Null
           /\ BeforeRunOf(b, log[b].snap.task)
           /\ \E i \in (b + 1)..Len(log) :
                  SendOf(i, log[b].snap.task) /\ log[i].step = log[b].step
    /\ kills = <<>> =>
           \A i \in Pos : log[i].ev = "send" =>
               \A i2 \in (i + 1)..Len(log) :
                   (/\ log[i2].ev = "send"
                    /\ \A k \in (i + 1)..(i2 - 1) : log[k].ev # "send") =>
                       \A b \in (i + 1)..(i2 - 1) : BeforeRunOf(b, log[i2].id) =>
                           \E j \in (i + 1)..(b - 1) :
                               /\ log[j].ev = "_onMessage"
                               /\ log[j].id = log[i].id
                               /\ \A k \in Pos :
                                      (/\ log[k].step = log[j].step
                                       /\ log[k].ev \in {"onSuccess", "onError",
                                                         "afterRun"}
                                       /\ CallbackOf(k, log[i].id))
                                      => (j < k /\ k < b)

\* A task that waited in the queue has had its beforeRun invoked and has been
\* sent, in the handler of the reply to the task before it.
C8_Witness ==
    \E r \in Pos, b \in Pos, i \in Pos :
        /\ log[r].ev = "_run.return" /\ InSeq(log[r].id, log[r].snap.tasks)
        /\ r < b /\ b < i
        /\ BeforeRunOf(b, log[r].id)
        /\ SendOf(i, log[r].id)
        /\ \E j \in 1..(b - 1) :
               log[j].ev = "afterRun" /\ log[j].step = log[b].step

\* C9 (as claimed): once the worker has exited, the onKilled of every call
\* of kill on it has been invoked exactly once.
C9_OnKilledOnce ==
    \A k \in 1..Len(kills) :
        (~kills[k].restart /\ kills[k].cb /\ status[kills[k].h] = "exited")
        => Count({i \in Pos : log[i].ev = "onKilled" /\ log[i].id = k}) = 1

\* C10: when onRestarted is invoked the session is idle with an empty queue,
\* not killed, and has a worker handle that no earlier event involved, which
\* is running and has _onMessage listening.
C10_RestartPostState ==
    \A i \in Pos : log[i].ev = "onRestarted" =>
        /\ log[i].snap.task = Null
        /\ log[i].snap.tasks = <<>>
        /\ ~log[i].snap.killed
        /\ log[i].snap.listening
        /\ log[i].snap.status = "running"
        /\ \A j \in 1..(i - 1) :
               log[j].snap.server # log[i].snap.server /\ log[j].h # log[i].snap.server

\* onRestarted has been invoked for two restarts, the first of which was
\* called with a task in flight.
C10_Witness ==
    \E r \in Pos, i \in Pos, j \in Pos :
        /\ log[r].ev = "restart" /\ log[r].snap.task # Null
        /\ r < i /\ i < j
        /\ log[i].ev = "onRestarted" /\ log[i].id = log[r].id
        /\ log[j].ev = "onRestarted"

\* C11 (as claimed): a restart is always completed: once the worker handle on
\* which restart was called has exited (its "exit" event has been emitted,
\* and is emitted once), the onRestarted of that restart has been invoked,
\* with the session re-initialised as C10 says.
C11_RestartCompletes ==
    \A k \in 1..Len(kills) :
        (kills[k].restart /\ kills[k].cb /\ status[kills[k].h] = "exited")
        => \E i \in Pos : log[i].ev = "onRestarted" /\ log[i].id = k

\* The call at event i is a complete or inspect whose expression parses to
\* null.
NullParseCall(i) ==
    /\ log[i].ev \in {"complete", "inspect"}
    /\ ExpressionOf(Cur, log[i].id) = NullExpression

\* C12: a complete or inspect whose expression parses to null invokes
\* onSuccess at once with the empty result (complete: empty list, cursorStart
\* = cursorEnd = cursorPos; inspect: empty string, type and matchedText),
\* creates no task and sends nothing, and leaves _task, _tasks, _killed and
\* the worker handle as they were: they are the same when onSuccess is
\* invoked and, unless the callback itself calls the session, when the call
\* has returned.
C12_NullParseSynchronous ==
    \A i \in Pos : NullParseCall(i) =>
        LET c == log[i].id
            Same(snap) == /\ snap.task = log[i].snap.task
                          /\ snap.tasks = log[i].snap.tasks
                          /\ snap.killed = log[i].snap.killed
                          /\ snap.server = log[i].snap.server
        IN  /\ i + 1 <= Len(log)
            /\ log[i + 1].ev = "onSuccess"
            /\ log[i + 1].id = c
            /\ log[i + 1].step = log[i].step
            /\ log[i + 1].arg =
                   IF log[i].ev = "complete"
                   THEN [completion |->
                            [list |-> <<>>, code |-> calls[c].code,
                             cursorPos |-> calls[c].cursorPos,
                             matchedText |-> <<>>,
                             cursorStart |-> calls[c].cursorPos,
                             cursorEnd |-> calls[c].cursorPos]]
                   ELSE [inspection |->
                            [code |-> calls[c].code,
                             cursorPos |-> calls[c].cursorPos,
                             matchedText |-> <<>>, string |-> <<>>,
                             type |-> <<>>]]
            /\ Same(log[i + 1].snap)
            /\ i + 2 <= Len(log) =>
                   \/ NestedCall(i + 2)
                   \/ log[i + 2].step # log[i].step /\ Same(log[i + 2].snap)
            /\ i + 1 = Len(log) => Same(Snap(Cur))
            /\ \A t \in 1..Len(tbl) : tbl[t].call # c
            /\ \A j \in Pos : log[j].ev \in Outcomes /\ log[j].id = c => j = i + 1

\* A complete and an inspect whose expressions parse to null were called
\* with a task in flight, and both have returned.
C12_Witness ==
    \E i \in Pos :
        /\ log[i].ev = "complete" /\ log[i].snap.task # Null
        /\ NullParseCall(i)
        /\ \E j \in Pos :
               /\ log[j].ev = "inspect" /\ log[j].snap.task # Null
               /\ NullParseCall(j)
               /\ i + 1 < Len(log) /\ j + 1 < Len(log)

\* Event j is _onMessage processing an error reply to the in-flight task, a
\* primitive request of a complete or inspect call.
ErrorReplyOfComposed(j) ==
    /\ log[j].ev = "_onMessage"
    /\ log[j].arg.error
    /\ log[j].arg.req = log[j].id
    /\ tbl[log[j].id].action \in {"getAllPropertyNames", "inspect"}

\* C13: when the session processes an error reply to a primitive request of
\* a complete or inspect call, it invokes the onError of that call with the
\* payload as received, onSuccess is never invoked for that call, and no
\* request of that call is submitted or sent afterwards.
C13_ErrorShortCircuit ==
    \A j \in Pos : ErrorReplyOfComposed(j) =>
        LET c == tbl[log[j].id].call
        IN  /\ calls[c].op \in {"complete", "inspect"}
            /\ j + 1 <= Len(log)
            /\ log[j + 1].ev = "onError"
            /\ log[j + 1].id = c
            /\ log[j + 1].step = log[j].step
            /\ log[j + 1].arg = log[j].arg
            /\ \A k \in Pos : log[k].id = c => log[k].ev # "onSuccess"
            /\ \A k \in (j + 1)..Len(log) :
                   log[k].ev \in {"_run", "send"} => tbl[log[k].id].call # c
            /\ \A t \in 1..Len(tbl) : tbl[t].call = c => t <= log[j].id

\* Error replies have been processed to the property-name request of a
\* complete, to the first request of an inspect, and to the scope request of
\* a scoped inspect.
C13_Witness ==
    \E j1 \in Pos :
        /\ ErrorReplyOfComposed(j1)
        /\ tbl[log[j1].id].onSuccess = "complete"
        /\ \E j2 \in Pos :
               /\ ErrorReplyOfComposed(j2)
               /\ tbl[log[j2].id].onSuccess = "inspect"
               /\ \E j3 \in Pos :
                      /\ ErrorReplyOfComposed(j3)
                      /\ tbl[log[j3].id].onSuccess = "inspectScope"

\* Event k is the onSuccess of an inspect call whose expression parsed.
InspectOnSuccessEvent(k) ==
    /\ log[k].ev = "onSuccess"
    /\ calls[log[k].id].op = "inspect"
    /\ ExpressionOf(Cur, log[k].id) # NullExpression

\* Event j is _onMessage processing a success reply to a task of the given
\* kind ("inspect": the first task of an inspect, "inspectScope": the second).
SuccessReplyOf(j, kind) ==
    /\ log[j].ev = "_onMessage"
    /\ ~log[j].arg.error
    /\ tbl[log[j].id].onSuccess = kind

\* C14: the onSuccess of an inspect call is invoked once, directly by the
\* handler of the success reply to the scope request if the expression has a
\* scope and to the first request if it has none, and afterRun is invoked
\* after it by the same handler; with a scope, the handler of the first reply
\* only submits the scope request; without a scope no second task exists.
C14_InspectOnSuccessTiming ==
    /\ \A k \in Pos : InspectOnSuccessEvent(k) =>
           LET c == log[k].id
               scoped == ExpressionOf(Cur, c).scope # <<>>
           IN  /\ k > 1
               /\ SuccessReplyOf(k - 1, IF scoped THEN "inspectScope"
                                        ELSE "inspect")
               /\ tbl[log[k - 1].id].call = c
               /\ log[k - 1].step = log[k].step
               /\ Count({i \in Pos : log[i].ev = "onSuccess" /\ log[i].id = c})
                      = 1
               /\ \E a \in (k + 1)..Len(log) :
                      /\ log[a].ev = "afterRun" /\ log[a].id = c
                      /\ log[a].step = log[k].step
               /\ ~scoped => \A t \in 1..Len(tbl) :
                                 tbl[t].call = c => tbl[t].onSuccess = "inspect"
    /\ \A j \in Pos : SuccessReplyOf(j, "inspect") =>
           LET c == tbl[log[j].id].call
           IN  IF ExpressionOf(Cur, c).scope # <<>>
               THEN /\ j + 1 <= Len(log)
                    /\ log[j + 1].ev = "_run"
                    /\ log[j + 1].step = log[j].step
                    /\ tbl[log[j + 1].id].call = c
                    /\ tbl[log[j + 1].id].onSuccess = "inspectScope"
                    /\ tbl[log[j + 1].id].code = ExpressionOf(Cur, c).scope
                    /\ \A k \in Pos : log[k].step = log[j].step =>
                           ~(log[k].ev \in {"onSuccess", "afterRun"}
                             /\ log[k].id = c)
               ELSE j + 1 <= Len(log) /\ InspectOnSuccessEvent(j + 1)
                    /\ log[j + 1].id = c
    /\ \A j \in Pos : SuccessReplyOf(j, "inspectScope") =>
           /\ j + 1 <= Len(log) /\ InspectOnSuccessEvent(j + 1)
           /\ log[j + 1].id = tbl[log[j].id].call

\* A scoped inspect has received its onSuccess after the replies to both of
\* its requests, another task having been sent between the two, and an
\* inspect without scope has received its onSuccess.
C14_Witness ==
    \E k \in Pos :
        /\ InspectOnSuccessEvent(k)
        /\ ExpressionOf(Cur, log[k].id).scope # <<>>
        /\ \E i \in 1..k, x \in 1..k, i2 \in 1..k :
               /\ i < x /\ x < i2
               /\ log[i].ev = "send" /\ tbl[log[i].id].call = log[k].id
               /\ log[x].ev = "send" /\ tbl[log[x].id].call # log[k].id
               /\ log[i2].ev = "send" /\ tbl[log[i2].id].call = log[k].id
        /\ \E k2 \in Pos :
               /\ InspectOnSuccessEvent(k2)
               /\ ExpressionOf(Cur, log[k2].id).scope = <<>>

\* Event k is the onSuccess of a complete call invoked for a success reply
\* to its property-name request.
CompletionDelivered(k) ==
    /\ k > 1
    /\ log[k].ev = "onSuccess"
    /\ calls[log[k].id].op = "complete"
    /\ log[k - 1].ev = "_onMessage"
    /\ ~log[k - 1].arg.error

\* C15: the list delivered for a success reply to the property-name request
\* consists of the names of the reply in order, followed by all reserved
\* words in their order iff scope is empty, of which exactly the entries that
\* start with selector are kept (all if selector is empty), in order and
\* with duplicates, each entry e given as scope + leftOp + e + rightOp.
C15_CompletionList ==
    \A k \in Pos : CompletionDelivered(k) =>
        LET e == calls[log[k].id].expression
            names == log[k - 1].arg.result.names
            base == IF e.scope = <<>> THEN names \o javascriptKeywords
                    ELSE names
            kept == {i \in 1..Len(base) :
                        \/ e.selector = <<>>
                        \/ /\ Len(e.selector) <= Len(base[i])
                           /\ \A p \in 1..Len(e.selector) :
                                  base[i][p] = e.selector[p]}
            list == log[k].arg.completion.list
        IN  /\ Len(list) = Cardinality(kept)
            /\ \A i \in kept :
                   list[Cardinality({j \in kept : j <= i})]
                       = e.scope \o e.leftOp \o base[i] \o e.rightOp

\* A list has been delivered for a scope and a selector, of several names
\* that start with the selector, one of them twice, with a name that does not
\* start with it left out.
C15_Witness ==
    \E k \in Pos :
        /\ CompletionDelivered(k)
        /\ calls[log[k].id].expression.scope # <<>>
        /\ calls[log[k].id].expression.selector # <<>>
        /\ Len(log[k].arg.completion.list) = 3
        /\ Len(log[k - 1].arg.result.names) = 4
        /\ log[k].arg.completion.list[2] = log[k].arg.completion.list[3]
        /\ log[k].arg.completion.list[1] # log[k].arg.completion.list[2]

\* The text before the cursor of the call at event i is empty or ends in a
\* whitespace character.
BlankBeforeCursor(i) ==
    LET c == calls[log[i].id]
    IN  /\ log[i].ev \in {"complete", "inspect"}
        /\ \/ c.cursorPos = 0
           \/ c.code = <<>>
           \/ c.code[c.cursorPos] \in {" ", "\t", "\n", "\r", "\f"}

\* C16: for a code and a cursor position such that the text before the
\* cursor is empty or ends in a whitespace character, parseExpression
\* returns the Expression with empty matchedText, scope, leftOp, selector
\* and rightOp, not null: the call goes on with that expression and submits
\* its task, complete for the code "global" and inspect for the empty code.
C16_BlankPrefixEmptyExpression ==
    \A i \in Pos : BlankBeforeCursor(i) =>
        LET c == calls[log[i].id]
            empty == [matchedText |-> <<>>, scope |-> <<>>, leftOp |-> <<>>,
                      selector |-> <<>>, rightOp |-> <<>>]
        IN  /\ parseExpression(c.code, c.cursorPos) = empty
            /\ c.expression = empty
            /\ c.expression # NullExpression
            /\ i + 1 <= Len(log)
            /\ log[i + 1].ev = "_run"
            /\ tbl[log[i + 1].id].call = log[i].id
            /\ tbl[log[i + 1].id].code =
                   IF c.op = "complete" THEN GlobalCode ELSE <<>>

\* A call was made with the cursor inside the code, after a whitespace
\* character that follows a property access and is followed by another.
C16_Witness ==
    \E i \in Pos :
        /\ BlankBeforeCursor(i)
        /\ calls[log[i].id].cursorPos = 4
        /\ Len(calls[log[i].id].code) > 4
        /\ calls[log[i].id].code[2] = "."
        /\ i < Len(log)

\* C17: whenever the session processes a reply of a worker there is an
\* in-flight task, the one the reply answers: _onMessage never finds _task
\* null (which would raise a TypeError at its first use of the task).
C17_TaskInFlightAtReply ==
    \A j \in Pos :
        /\ log[j].ev # "TypeError"
        /\ log[j].ev = "_onMessage" =>
               /\ log[j].snap.task # Null
               /\ log[j].id = log[j].snap.task
               /\ log[j].arg.req = log[j].id
               /\ log[j - 1].ev = "reply"
               /\ log[j - 1].h = log[j].snap.server

\* A reply has been processed on the worker handle installed by a restart
\* that was called with a task in flight, whose reply the old worker gave
\* after the restart was called.
C17_Witness ==
    \E r \in Pos, x \in Pos, j \in Pos :
        /\ log[r].ev = "restart" /\ log[r].snap.task # Null
        /\ r < x /\ log[x].ev = "reply" /\ log[x].h = log[r].h
        /\ r < j /\ log[j].ev = "_onMessage" /\ log[j].h # log[r].h

ScopedInspectDelivered(k) ==
    /\ InspectOnSuccessEvent(k)
    /\ calls[log[k].id].expression.scope # <<>>

\* C19: the result of a scoped inspect has as doc the documentation of
\* <C>.prototype.<selector> for the first constructor C, in the order of the
\* constructorList of the reply to the scope request, for which
\* getDocumentation finds documentation, whatever later constructors would
\* yield; it has no doc property if there is no such constructor or the
\* reply has no constructorList.
C19_ScopedDocResolution ==
    \A k \in Pos : ScopedInspectDelivered(k) =>
        LET selector == calls[log[k].id].expression.selector
            reply == log[k - 1].arg.result.inspection
            list == IF "constructorList" \in DOMAIN reply
                    THEN reply.constructorList ELSE <<>>
            DocAt(i) == getDocumentation(list[i] \o DotPrototypeDot \o selector)
            hits == {i \in 1..Len(list) : DocAt(i) # NoDoc}
        IN  IF hits = {}
            THEN "doc" \notin DOMAIN log[k].arg
            ELSE /\ "doc" \in DOMAIN log[k].arg
                 /\ \E i \in hits :
                        /\ \A j \in hits : i <= j
                        /\ log[k].arg.doc = DocAt(i)

\* A scoped inspect has been given the documentation found for the first
\* constructor of a list whose second constructor has other documentation,
\* and (in another behaviour) one the documentation of the second
\* constructor, the first having none.
C19_Witness ==
    \E k \in Pos :
        /\ ScopedInspectDelivered(k)
        /\ "doc" \in DOMAIN log[k].arg
        /\ LET list == log[k - 1].arg.result.inspection.constructorList
               selector == calls[log[k].id].expression.selector
           IN  /\ Len(list) = 2
               /\ getDocumentation(list[2] \o DotPrototypeDot \o selector)
                      \notin {NoDoc, log[k].arg.doc}

\* C20: whenever there is no in-flight task the queue is empty: in every
\* state between two handlers, and in every state a callback of the caller
\* or a public call finds.
C20_IdleImpliesEmptyQueue ==
    /\ _task = Null => _tasks = <<>>
    /\ \A i \in Pos : log[i].snap.task = Null => log[i].snap.tasks = <<>>

\* The session is idle again, without any kill, after two tasks waited
\* together in the queue.
C20_Witness ==
    /\ _task = Null
    /\ kills = <<>>
    /\ \E i \in Pos : Len(log[i].snap.tasks) = 2

\* The outcome callbacks (onSuccess, onError) the caller of call c received.
OutcomesOf(c) == {i \in Pos : log[i].ev \in Outcomes /\ log[i].id = c}

\* Every call so far has received exactly one outcome callback, every task
\* created so far has been sent to the worker, and the session is idle with
\* an empty queue.
Settled ==
    /\ \A c \in 1..Len(calls) : Count(OutcomesOf(c)) = 1
    /\ \A t \in 1..Len(tbl) : \E i \in Pos : SendOf(i, t)
    /\ _task = Null /\ _tasks = <<>>

\* C21: liveness without kill: if kill and restart are never called and the
\* worker replies to every request it receives, then every task submitted
\* through execute, complete or inspect is eventually sent to the worker, the
\* caller of every call eventually receives an outcome callback (onSuccess or
\* onError) and never receives a second one, and the session eventually
\* returns to idle with an empty queue once submissions stop.  (Sends and
\* callbacks stay in the history and a session takes finitely many calls, so
\* "each eventually" is "eventually all, for ever".)
C21_LivenessWithoutKill ==
    /\ [](\A c \in 1..Len(calls) : Count(OutcomesOf(c)) <= 1)
    /\ <>[]Settled

\* Without any kill, a scoped inspect and two more calls that waited
\* together in the queue have all received their outcome, every task has
\* been sent, and the session is idle.
C21_Witness ==
    /\ _task = Null /\ _tasks = <<>>
    /\ kills = <<>>
    /\ Len(calls) = MaxCalls
    /\ \A c \in 1..Len(calls) : Count(OutcomesOf(c)) = 1
    /\ \A t \in 1..Len(tbl) : \E i \in Pos : SendOf(i, t)
    /\ \E c \in 1..Len(calls) :
           /\ calls[c].op = "inspect"
           /\ Count({t \in 1..Len(tbl) : tbl[t].call = c}) = 2
    /\ \E i \in Pos : Len(log[i].snap.tasks) = 2

\* C22: the two requests of one scoped inspect call are sent back-to-back:
\* no task of another public call is sent to the worker between the first
\* request of an inspect call and its scope request; and the outcome
\* callbacks of the calls that submitted a task are delivered in the order
\* in which the calls were made.
C22_InspectBackToBack ==
    /\ \A i \in Pos, x \in Pos, j \in Pos :
           (/\ i < x /\ x < j
            /\ log[i].ev = "send" /\ log[x].ev = "send" /\ log[j].ev = "send"
            /\ log[i].id # log[j].id
            /\ tbl[log[i].id].call = tbl[log[j].id].call)
           => tbl[log[x].id].call = tbl[log[i].id].call
    /\ \A i \in Pos, j \in Pos :
           (/\ i < j
            /\ log[i].ev \in Outcomes /\ log[j].ev \in Outcomes
            /\ \E t \in 1..Len(tbl) : tbl[t].call = log[i].id
            /\ \E t \in 1..Len(tbl) : tbl[t].call = log[j].id)
           => log[i].id <= log[j].id

\* C23: beforeRun and afterRun are balanced per public call: for every
\* execute, complete or inspect call that sent a request and completed
\* successfully (onSuccess invoked, no kill or restart called), the beforeRun
\* of the caller has been invoked exactly once and the afterRun of the caller
\* exactly once, with beforeRun first, also for an inspect whose expression
\* has a non-empty scope.
C23_BeforeAfterBalanced ==
    \A k \in Pos :
        (/\ log[k].ev = "onSuccess"
         /\ kills = <<>>
         /\ \E t \in 1..Len(tbl) : tbl[t].call = log[k].id)
        => /\ Count({b \in Pos : log[b].ev = "beforeRun"
                                 /\ log[b].id = log[k].id}) = 1
           /\ Count({a \in Pos : log[a].ev = "afterRun"
                                 /\ log[a].id = log[k].id}) = 1
           /\ \A b \in Pos, a \in Pos :
                  (/\ log[b].ev = "beforeRun" /\ log[b].id = log[k].id
                   /\ log[a].ev = "afterRun" /\ log[a].id = log[k].id)
                  => b < a

\* C24: in every completion result with a non-empty list, cursorStart equals
\* cursorPos minus the length of matchedText: the replacement span starts at
\* the occurrence of the matched expression that ends at the cursor, also
\* when matchedText occurs earlier in the code or is empty.
C24_CursorStartAtMatch ==
    \A k \in Pos : (log[k].ev = "onSuccess" /\ calls[log[k].id].op = "complete")
        => LET r == log[k].arg.completion
           IN  r.list # <<>>
                   => r.cursorStart = r.cursorPos - Len(r.matchedText)

\* The text before the trailing identifier of x (x itself if x does not end
\* in an identifier).
BeforeSelector(x) ==
    LET ids == {i \in 1..Len(x) : x[i] \in IdStart /\ AllIdChar(x, i + 1, Len(x))}
    IN  IF ids = {} THEN x
        ELSE SubSeq(x, 1, (CHOOSE i \in ids : \A j \in ids : i <= j) - 1)

\* The length of the access operator (. or [" or [') that ends b, 0 if none.
AccessOperatorLen(b) ==
    IF b # <<>> /\ b[Len(b)] = "." THEN 1
    ELSE IF Len(b) >= 2 /\ b[Len(b) - 1] = "[" /\ b[Len(b)] \in {"\"", "'"}
    THEN 2
    ELSE 0

\* C25: expression decomposition: for every code and cursorPos for which
\* parseExpression returns a non-null Expression, matchedText = scope +
\* leftOp + selector, matchedText is a suffix of code[0:cursorPos], (leftOp,
\* rightOp) is one of ("", ""), (".", ""), ([", "]), ([', ']), and scope is
\* non-empty whenever leftOp is non-empty; null is returned exactly when an
\* access operator was found before the trailing identifier and the text
\* before the operator does not end in a property-access chain.
C25_ExpressionDecomposition ==
    \A c \in 1..Len(calls) :
        LET e == calls[c].expression
            prefix == SubSeq(calls[c].code, 1, calls[c].cursorPos)
            b == BeforeSelector(prefix)
            n == AccessOperatorLen(b)
            found == n > 0
            chain == complexIdentifierRE(SubSeq(b, 1, Len(b) - n)) # 0
        IN  /\ e = NullExpression <=> (found /\ ~chain)
            /\ e # NullExpression =>
                   /\ e.matchedText = e.scope \o e.leftOp \o e.selector
                   /\ Len(e.matchedText) <= Len(prefix)
                   /\ e.matchedText
                          = SubSeq(prefix, Len(prefix) - Len(e.matchedText) + 1,
                                   Len(prefix))
                   /\ <<e.leftOp, e.rightOp>>
                          \in {<<<<>>, <<>>>>, <<<<".">>, <<>>>>,
                               <<<<"[", "\"">>, <<"\"", "]">>>>,
                               <<<<"[", "'">>, <<"'", "]">>>>}
                   /\ e.leftOp # <<>> => e.scope # <<>>

\* A call whose expression has a scope, an access operator and a selector,
\* and whose matched text is only the end of the text before the cursor.
C25_Witness ==
    \E c \in 1..Len(calls) :
        LET e == calls[c].expression
        IN  /\ e # NullExpression
            /\ e.scope # <<>> /\ e.leftOp # <<>> /\ e.selector # <<>>
            /\ Len(e.matchedText) < calls[c].cursorPos

====
